---- MODULE Spec2Model ----
(***************************************************************************)
(* Model of cmd/destroy/remote.go: remoteDestroyCommand.destroy, its       *)
(* helpers createDockerfile, createDockerignoreIfNeeded, getDestroyFlags,  *)
(* and the classification of the error returned by builder.Build.          *)
(*                                                                         *)
(* One destroy invocation is a sequence of steps, one per call into a      *)
(* collaborator (cluster metadata, working-directory controller, temporal  *)
(* directory controller, filesystem, random source, template, builder,     *)
(* log).  Each collaborator call either succeeds or fails; the choice is   *)
(* an input of the step.  Several invocations may run one after another on *)
(* the same remoteDestroyCommand value.                                    *)
(*                                                                         *)
(* An error value is the sequence of the nodes of its chain, outermost     *)
(* first; nil is the empty sequence.                                       *)
(***************************************************************************)
EXTENDS Integers, Sequences, FiniteSets, TLC

VARIABLES
    pc,              \* position of the current destroy invocation
    runs,            \* number of destroy invocations started so far
    opts,            \* *Options argument of the current invocation
    callerImage,     \* manifest.Destroy.Image given to newRemoteDestroyer
    destroyImage,    \* rd.destroyImage
    sc,              \* cluster metadata fetched by the current invocation
    wd,              \* the process working directory
    cwd,             \* local cwd of destroy (line 133)
    dfCwd,           \* local cwd of createDockerfile (line 199)
    tmpDir,          \* local tmpDir of destroy (line 138)
    fs,              \* rd.fs: file path -> content
    dockerfileSyntax,\* local dockerfileSyntax of createDockerfile
    deployFlags,     \* value returned by getDestroyFlags
    rendered,        \* template properties written into the manifest
    dockerfile,      \* local dockerfile of destroy (manifest path)
    deferred,        \* TRUE once the deferred removal is registered
    buildOptions,    \* request handed to builder.Build
    buildErr,        \* value returned by builder.Build
    stage,           \* oktetoLog stage
    logBuffer,       \* oktetoLog buffer
    nonces,          \* RandomInt of every manifest rendered so far
    trace,           \* collaborator calls of the current invocation
    result           \* value returned by the current invocation

vars == <<pc, runs, opts, callerImage, destroyImage, sc, wd, cwd, dfCwd,
          tmpDir, fs, dockerfileSyntax, deployFlags, rendered, dockerfile,
          deferred, buildOptions, buildErr, stage, logBuffer, nonces, trace,
          result>>

---------------------------------------------------------------------------
(* Bounds and input sets *)

MaxRuns == 2

\* big.NewInt(1000), line 204
NonceLimit == 1000

\* outcomes of rand.Int explored by the orchestration specification
RandSample == {0, NonceLimit - 1}

Dirs == {"/w1", "/w2"}

Images == {"", "user/img"}

StageLabels == {"installer", "done"}

NoMetadata == [ok |-> FALSE, PipelineRunnerImage |-> "", PipelineInstallerImage |-> ""]

MetadataSet ==
    { [ok |-> TRUE, PipelineRunnerImage |-> r, PipelineInstallerImage |-> "installer:1"]
        : r \in {"runner:1", "runner:2"} }

NoOptions ==
    [Name |-> "", Namespace |-> "", ManifestPathFlag |-> "",
     DestroyVolumes |-> FALSE, ForceDestroy |-> FALSE]

\* every combination of the five option fields
OptionsAll ==
    [Name : {"", "myenv", "a b"}, Namespace : {"", "ns1", "ns2"},
     ManifestPathFlag : {"", "okteto.yml", "dir/okteto.yml"},
     DestroyVolumes : BOOLEAN, ForceDestroy : BOOLEAN]

\* options used by the orchestration specification
OptionsRun ==
    { NoOptions,
      [Name |-> "myenv", Namespace |-> "ns1", ManifestPathFlag |-> "",
       DestroyVolumes |-> TRUE, ForceDestroy |-> FALSE] }

---------------------------------------------------------------------------
(* Error values *)

Nil == <<>>

PlainNode(m) == [kind |-> "plain", msg |-> m, stage |-> "", cause |-> <<>>]

\* fmt.Errorf("<m>: %w", e) is <<WrapNode(m)>> \o e
WrapNode(m) == [kind |-> "wrap", msg |-> m, stage |-> "", cause |-> <<>>]

\* oktetoErrors.UserError{E: e} is <<UserNode>> \o e
UserNode == [kind |-> "user", msg |-> "", stage |-> "", cause |-> <<>>]

\* build.OktetoCommandErr{Stage: s, Err: c}
CmdNode(s, c) == [kind |-> "cmd", msg |-> "", stage |-> s, cause |-> c]

\* the error a failing collaborator call returns
ErrOf(call) == <<PlainNode(call)>>

Cause == <<PlainNode("exit status 1")>>

\* values builder.Build can return
BuildResults ==
    { Nil,
      <<PlainNode("build failed")>>,
      <<UserNode, PlainNode("bad manifest")>>,
      <<WrapNode("build"), UserNode, PlainNode("bad manifest")>> }
    \cup { <<CmdNode(s, Cause)>> : s \in StageLabels }
    \cup { <<WrapNode("build"), CmdNode(s, Cause)>> : s \in StageLabels }
    \cup { <<UserNode, CmdNode(s, Cause)>> : s \in StageLabels }
    \cup { <<WrapNode("build"), CmdNode(s, <<UserNode, PlainNode("inner")>>),
             UserNode, PlainNode("inner")>> : s \in StageLabels }

\* errors.As(err, &target) for a target of the given kind: index of the
\* first node of that kind in the chain, 0 when there is none
RECURSIVE AsFrom(_, _, _)
AsFrom(err, kind, i) ==
    IF i > Len(err) THEN 0
    ELSE IF err[i].kind = kind THEN i
    ELSE AsFrom(err, kind, i + 1)

As(err, kind) == AsFrom(err, kind, 1)


---------------------------------------------------------------------------
(* Strings, files, call records *)

Digits == <<"0", "1", "2", "3", "4", "5", "6", "7", "8", "9">>

\* decimal rendering of a natural number
RECURSIVE IntToStr(_)
IntToStr(n) ==
    IF n < 10 THEN Digits[n + 1]
    ELSE IntToStr(n \div 10) \o Digits[(n % 10) + 1]

\* strings.Join(elems, sep)
RECURSIVE Join(_, _)
Join(elems, sep) ==
    IF elems = <<>> THEN ""
    ELSE IF Len(elems) = 1 THEN elems[1]
    ELSE elems[1] \o sep \o Join(Tail(elems), sep)

\* fmt.Sprintf("%s/%s", dir, name) and filepath.Join(dir, name) on clean paths
PathJoin(dir, name) == dir \o "/" \o name

WriteFile(f, p, c) == [q \in (DOMAIN f) \cup {p} |-> IF q = p THEN c ELSE f[q]]

RemoveFile(f, p) == [q \in (DOMAIN f) \ {p} |-> f[q]]

NoFiles == [q \in {} |-> ""]

\* the ignore files present in the working directories when the program starts
InitialFiles ==
    { WriteFile(NoFiles, "/w1/.oktetodeployignore", "node_modules\n"),
      WriteFile(WriteFile(NoFiles, "/w1/.oktetodeployignore", "node_modules\n"),
                "/w2/.oktetodeployignore", "") }

Call(c, o) == [call |-> c, out |-> o]

Called(c) == \E i \in 1..Len(trace) : trace[i].call = c

CalledWith(c, o) == \E i \in 1..Len(trace) : trace[i] = Call(c, o)

Count(c) == Cardinality({i \in 1..Len(trace) : trace[i].call = c})

NoRender ==
    [ok |-> FALSE, UserDestroyImage |-> "", InstallerImage |-> "",
     RandomInt |-> 0, DestroyFlags |-> ""]

NoBuildOptions == [ok |-> FALSE, Path |-> "", File |-> "", OutputMode |-> ""]

---------------------------------------------------------------------------
(* Pure helpers of remote.go *)

\* getDestroyFlags with the namespace flag appended before the name flag
getDestroyFlags_NamespaceFirst(o) ==
    LET f1 == IF o.Namespace # "" THEN <<"--namespace " \o o.Namespace>> ELSE <<>>
        f2 == IF o.Name # ""
              THEN Append(f1, "--name \"" \o o.Name \o "\"") ELSE f1
        f3 == IF o.ManifestPathFlag # ""
              THEN Append(f2, "--file " \o o.ManifestPathFlag) ELSE f2
        f4 == IF o.DestroyVolumes THEN Append(f3, "--volumes") ELSE f3
        f5 == IF o.ForceDestroy THEN Append(f4, "--force-destroy") ELSE f4
    IN  f5

\* lines 267-291
getDestroyFlags(o) ==
    LET f1 == IF o.Name # "" THEN <<"--name \"" \o o.Name \o "\"">> ELSE <<>>
        f2 == IF o.Namespace # ""
              THEN Append(f1, "--namespace " \o o.Namespace) ELSE f1
        f3 == IF o.ManifestPathFlag # ""
              THEN Append(f2, "--file " \o o.ManifestPathFlag) ELSE f2
        f4 == IF o.DestroyVolumes THEN Append(f3, "--volumes") ELSE f3
        f5 == IF o.ForceDestroy THEN Append(f4, "--force-destroy") ELSE f4
    IN  f5

\* lines 129-131: the value of rd.destroyImage after the defaulting
ResolveDestroyImage(current, meta) ==
    IF current = "" THEN meta.PipelineRunnerImage ELSE current

\* lines 210-227: the template properties createDockerfile assembles
DockerfileProperties(img, installerImage, o, n) ==
    [ok |-> TRUE, UserDestroyImage |-> img, InstallerImage |-> installerImage,
     RandomInt |-> n, DestroyFlags |-> Join(getDestroyFlags(o), " ")]

\* createDockerignoreIfNeeded writing the copy under the source's name
createDockerignoreIfNeeded_SourceName(f, dir, tmp, fault) ==
    LET dockerignoreFilePath == PathJoin(dir, ".oktetodeployignore")
        target == PathJoin(tmp, ".oktetodeployignore")
    IN  IF fault = "stat"
        THEN [fs |-> f, err |-> ErrOf("fs.Stat"),
              calls |-> <<Call("fs.Stat", "err")>>]
        ELSE IF dockerignoreFilePath \notin DOMAIN f
        THEN [fs |-> f, err |-> Nil, calls |-> <<Call("fs.Stat", "notexist")>>]
        ELSE IF fault = "read"
        THEN [fs |-> f, err |-> ErrOf("afero.ReadFile"),
              calls |-> <<Call("fs.Stat", "ok"), Call("afero.ReadFile", "err")>>]
        ELSE IF fault = "write"
        THEN [fs |-> f, err |-> ErrOf("afero.WriteFile"),
              calls |-> <<Call("fs.Stat", "ok"), Call("afero.ReadFile", "ok"),
                          Call("afero.WriteFile", "err")>>]
        ELSE [fs |-> WriteFile(f, target, f[dockerignoreFilePath]), err |-> Nil,
              calls |-> <<Call("fs.Stat", "ok"), Call("afero.ReadFile", "ok"),
                          Call("afero.WriteFile", "ok")>>]

\* lines 246-265.  fault names the filesystem call that fails, if any.
\* The result holds the filesystem, the error returned and the calls made.
createDockerignoreIfNeeded(f, dir, tmp, fault) ==
    LET dockerignoreFilePath == PathJoin(dir, ".oktetodeployignore")
        target == PathJoin(tmp, ".dockerignore")
    IN  IF fault = "stat"
        THEN [fs |-> f, err |-> ErrOf("fs.Stat"),
              calls |-> <<Call("fs.Stat", "err")>>]
        ELSE IF dockerignoreFilePath \notin DOMAIN f
        THEN [fs |-> f, err |-> Nil, calls |-> <<Call("fs.Stat", "notexist")>>]
        ELSE IF fault = "read"
        THEN [fs |-> f, err |-> ErrOf("afero.ReadFile"),
              calls |-> <<Call("fs.Stat", "ok"), Call("afero.ReadFile", "err")>>]
        ELSE IF fault = "write"
        THEN [fs |-> f, err |-> ErrOf("afero.WriteFile"),
              calls |-> <<Call("fs.Stat", "ok"), Call("afero.ReadFile", "ok"),
                          Call("afero.WriteFile", "err")>>]
        ELSE [fs |-> WriteFile(f, target, f[dockerignoreFilePath]), err |-> Nil,
              calls |-> <<Call("fs.Stat", "ok"), Call("afero.ReadFile", "ok"),
                          Call("afero.WriteFile", "ok")>>]

\* build.OptsFromBuildInfoForRemoteDeploy: carries the manifest path of the
\* build info and the context path and output mode of the given options
OptsFromBuildInfoForRemoteDeploy(buildInfo, o) ==
    [ok |-> TRUE, Path |-> o.Path, File |-> buildInfo.Dockerfile,
     OutputMode |-> o.OutputMode]

\* line 154-163: the request destroy builds from its locals
BuildRequest(manifestPath, dir) ==
    OptsFromBuildInfoForRemoteDeploy([Dockerfile |-> manifestPath],
                                     [Path |-> dir, OutputMode |-> "destroy"])

\* ClassifyBuildError testing for the user-facing error before the command error
ClassifyBuildError_UserFirst(err) ==
    LET c == As(err, "cmd")
        u == As(err, "user")
    IN  IF u # 0
        THEN [stage |-> "remote deploy", ret |-> SubSeq(err, u, Len(err))]
        ELSE IF c # 0
        THEN [stage |-> err[c].stage,
              ret |-> <<UserNode,
                        WrapNode("error during development environment deployment")>>
                      \o err[c].cause]
        ELSE [stage |-> "remote deploy",
              ret |-> <<UserNode,
                        WrapNode("error during destroy of the development environment")>>
                      \o err]

\* ClassifyBuildError without the pass-through of a user-facing error
ClassifyBuildError_AlwaysWrap(err) ==
    LET c == As(err, "cmd")
    IN  IF c # 0
        THEN [stage |-> err[c].stage,
              ret |-> <<UserNode,
                        WrapNode("error during development environment deployment")>>
                      \o err[c].cause]
        ELSE [stage |-> "remote deploy",
              ret |-> <<UserNode,
                        WrapNode("error during destroy of the development environment")>>
                      \o err]

\* lines 176-190: the stage set and the error returned for a failed Build
ClassifyBuildError(err) ==
    LET c == As(err, "cmd")
        u == As(err, "user")
    IN  IF c # 0
        THEN [stage |-> err[c].stage,
              ret |-> <<UserNode,
                        WrapNode("error during development environment deployment")>>
                      \o err[c].cause]
        ELSE IF u # 0
        THEN [stage |-> "remote deploy", ret |-> SubSeq(err, u, Len(err))]
        ELSE [stage |-> "remote deploy",
              ret |-> <<UserNode,
                        WrapNode("error during destroy of the development environment")>>
                      \o err]

\* BuildOutcome falling through to the success epilogue after a failed Build
BuildOutcome_FallThrough(err) ==
    IF err = Nil
    THEN [log |-> <<Call("oktetoLog.SetStage", "done"),
                    Call("oktetoLog.AddToBuffer", "EOF")>>,
          ret |-> Nil]
    ELSE [log |-> <<Call("oktetoLog.SetStage", "remote deploy"),
                    Call("oktetoLog.SetStage", "done"),
                    Call("oktetoLog.AddToBuffer", "EOF")>>,
          ret |-> Nil]

\* lines 175-196: what destroy does with the value Build returned: the
\* calls it makes on the log, in order, and the error it returns
BuildOutcome(err) ==
    IF err = Nil
    THEN [log |-> <<Call("oktetoLog.SetStage", "done"),
                    Call("oktetoLog.AddToBuffer", "EOF")>>,
          ret |-> Nil]
    ELSE [log |-> <<Call("oktetoLog.SetStage", ClassifyBuildError(err).stage)>>,
          ret |-> ClassifyBuildError(err).ret]

\* oktetoLog.SetStage: the stage after the calls of log, made in order
RECURSIVE StageAfter(_, _)
StageAfter(st, log) ==
    IF log = <<>> THEN st
    ELSE StageAfter(IF Head(log).call = "oktetoLog.SetStage" THEN Head(log).out ELSE st,
                    Tail(log))

\* oktetoLog.AddToBuffer: the buffer after the calls of log, made in order
RECURSIVE BufferAfter(_, _)
BufferAfter(buf, log) ==
    IF log = <<>> THEN buf
    ELSE BufferAfter(IF Head(log).call = "oktetoLog.AddToBuffer"
                     THEN Append(buf, Head(log).out) ELSE buf,
                     Tail(log))

---------------------------------------------------------------------------
(* The state after newRemoteDestroyer, before any destroy invocation *)

Init ==
    /\ pc = "idle"
    /\ runs = 0
    /\ opts = NoOptions
    /\ callerImage \in Images
    /\ destroyImage = callerImage
    /\ sc = NoMetadata
    /\ wd \in Dirs
    /\ cwd = ""
    /\ dfCwd = ""
    /\ tmpDir = ""
    /\ fs \in InitialFiles
    /\ dockerfileSyntax = NoRender
    /\ deployFlags = <<>>
    /\ rendered = NoRender
    /\ dockerfile = ""
    /\ deferred = FALSE
    /\ buildOptions = NoBuildOptions
    /\ buildErr = Nil
    /\ stage = ""
    /\ logBuffer = <<>>
    /\ nonces = <<>>
    /\ trace = <<>>
    /\ result = Nil

\* return err from destroy: the deferred removal, when registered, runs first
Return(err) ==
    /\ result' = err
    /\ pc' = IF deferred THEN "deferred" ELSE "returned"

\* a caller invokes rd.destroy(ctx, opts)
Start ==
    /\ pc \in {"idle", "returned"}
    /\ runs < MaxRuns
    /\ runs' = runs + 1
    /\ opts' \in OptionsRun
    /\ pc' = "clusterMetadata"
    /\ sc' = NoMetadata
    /\ cwd' = ""
    /\ dfCwd' = ""
    /\ tmpDir' = ""
    /\ dockerfileSyntax' = NoRender
    /\ deployFlags' = <<>>
    /\ rendered' = NoRender
    /\ dockerfile' = ""
    /\ deferred' = FALSE
    /\ buildOptions' = NoBuildOptions
    /\ buildErr' = Nil
    /\ trace' = <<>>
    /\ result' = Nil
    /\ UNCHANGED <<callerImage, destroyImage, wd, fs, stage, logBuffer, nonces>>

\* FetchClusterMetadata without the early return on failure
FetchClusterMetadata_NoReturn ==
    /\ pc = "clusterMetadata"
    /\ \/ \E m \in MetadataSet :
            /\ sc' = m
            /\ destroyImage' = ResolveDestroyImage(destroyImage, m)
            /\ trace' = Append(trace, Call("clusterMetadata", "ok"))
       \/ /\ trace' = Append(trace, Call("clusterMetadata", "err"))
          /\ UNCHANGED <<sc, destroyImage>>
    /\ pc' = "getcwd"
    /\ UNCHANGED <<runs, opts, callerImage, wd, cwd, dfCwd, tmpDir, fs,
                   dockerfileSyntax, deployFlags, rendered, dockerfile, deferred,
                   buildOptions, buildErr, stage, logBuffer, nonces, result>>

\* lines 124-131
FetchClusterMetadata ==
    /\ pc = "clusterMetadata"
    /\ \/ \E m \in MetadataSet :
            /\ sc' = m
            /\ destroyImage' = ResolveDestroyImage(destroyImage, m)
            /\ trace' = Append(trace, Call("clusterMetadata", "ok"))
            /\ pc' = "getcwd"
            /\ UNCHANGED result
       \/ /\ trace' = Append(trace, Call("clusterMetadata", "err"))
          /\ Return(ErrOf("clusterMetadata"))
          /\ UNCHANGED <<sc, destroyImage>>
    /\ UNCHANGED <<runs, opts, callerImage, wd, cwd, dfCwd, tmpDir, fs,
                   dockerfileSyntax, deployFlags, rendered, dockerfile, deferred,
                   buildOptions, buildErr, stage, logBuffer, nonces>>

\* lines 133-136
GetCwd ==
    /\ pc = "getcwd"
    /\ \/ /\ cwd' = wd
          /\ trace' = Append(trace, Call("workingDirectoryCtrl.Get", "ok"))
          /\ pc' = "tmpdir"
          /\ UNCHANGED result
       \/ /\ trace' = Append(trace, Call("workingDirectoryCtrl.Get", "err"))
          /\ Return(ErrOf("workingDirectoryCtrl.Get"))
          /\ UNCHANGED cwd
    /\ UNCHANGED <<runs, opts, callerImage, destroyImage, sc, wd, dfCwd, tmpDir,
                   fs, dockerfileSyntax, deployFlags, rendered, dockerfile,
                   deferred, buildOptions, buildErr, stage, logBuffer,
                   nonces>>

\* lines 138-141: every invocation gets a directory of its own
CreateTmpDir ==
    /\ pc = "tmpdir"
    /\ \/ /\ tmpDir' = "/tmp/okteto-" \o IntToStr(runs)
          /\ trace' = Append(trace, Call("temporalCtrl.Create", "ok"))
          /\ pc' = "df_getcwd"
          /\ UNCHANGED result
       \/ /\ trace' = Append(trace, Call("temporalCtrl.Create", "err"))
          /\ Return(ErrOf("temporalCtrl.Create"))
          /\ UNCHANGED tmpDir
    /\ UNCHANGED <<runs, opts, callerImage, destroyImage, sc, wd, cwd, dfCwd, fs,
                   dockerfileSyntax, deployFlags, rendered, dockerfile, deferred,
                   buildOptions, buildErr, stage, logBuffer, nonces>>

\* lines 199-202 (createDockerfile)
DockerfileGetCwd ==
    /\ pc = "df_getcwd"
    /\ \/ /\ dfCwd' = wd
          /\ trace' = Append(trace, Call("createDockerfile.Get", "ok"))
          /\ pc' = "df_rand"
          /\ UNCHANGED result
       \/ /\ trace' = Append(trace, Call("createDockerfile.Get", "err"))
          /\ Return(ErrOf("createDockerfile.Get"))
          /\ UNCHANGED dfCwd
    /\ UNCHANGED <<runs, opts, callerImage, destroyImage, sc, wd, cwd, tmpDir, fs,
                   dockerfileSyntax, deployFlags, rendered, dockerfile, deferred,
                   buildOptions, buildErr, stage, logBuffer, nonces>>

\* lines 204-227 (createDockerfile): the nonce and the template properties
DockerfileRandom ==
    /\ pc = "df_rand"
    /\ \/ \E n \in RandSample :
            /\ deployFlags' = getDestroyFlags(opts)
            /\ dockerfileSyntax' =
                 DockerfileProperties(destroyImage, sc.PipelineInstallerImage, opts, n)
            /\ trace' = Append(trace, Call("rand.Int", "ok"))
            /\ pc' = "df_create"
            /\ UNCHANGED result
       \/ /\ trace' = Append(trace, Call("rand.Int", "err"))
          /\ Return(ErrOf("rand.Int"))
          /\ UNCHANGED <<deployFlags, dockerfileSyntax>>
    /\ UNCHANGED <<runs, opts, callerImage, destroyImage, sc, wd, cwd, dfCwd,
                   tmpDir, fs, rendered, dockerfile, deferred, buildOptions,
                   buildErr, stage, logBuffer, nonces>>

\* lines 229-232 (createDockerfile): the manifest file is created, empty
DockerfileCreate ==
    /\ pc = "df_create"
    /\ \/ /\ fs' = WriteFile(fs, PathJoin(tmpDir, "deploy"), "")
          /\ trace' = Append(trace, Call("fs.Create", "ok"))
          /\ pc' = "df_ignore"
          /\ UNCHANGED result
       \/ /\ trace' = Append(trace, Call("fs.Create", "err"))
          /\ Return(ErrOf("fs.Create"))
          /\ UNCHANGED fs
    /\ UNCHANGED <<runs, opts, callerImage, destroyImage, sc, wd, cwd, dfCwd,
                   tmpDir, dockerfileSyntax, deployFlags, rendered, dockerfile,
                   deferred, buildOptions, buildErr, stage, logBuffer,
                   nonces>>

\* lines 234-237 (createDockerfile) with createDockerignoreIfNeeded
DockerfileIgnore ==
    /\ pc = "df_ignore"
    /\ \E fault \in {"none", "stat", "read", "write"} :
         LET r == createDockerignoreIfNeeded(fs, dfCwd, tmpDir, fault)
         IN  /\ fs' = r.fs
             /\ trace' = trace \o r.calls
             /\ IF r.err = Nil
                THEN pc' = "df_execute" /\ UNCHANGED result
                ELSE Return(r.err)
    /\ UNCHANGED <<runs, opts, callerImage, destroyImage, sc, wd, cwd, dfCwd,
                   tmpDir, dockerfileSyntax, deployFlags, rendered, dockerfile,
                   deferred, buildOptions, buildErr, stage, logBuffer,
                   nonces>>

\* lines 239-242 (createDockerfile) and 143-152 (destroy): the template is
\* written; on success destroy registers the deferred removal
DockerfileExecute ==
    /\ pc = "df_execute"
    /\ \/ /\ fs' = WriteFile(fs, PathJoin(tmpDir, "deploy"), "rendered")
          /\ rendered' = dockerfileSyntax
          /\ nonces' = Append(nonces, dockerfileSyntax.RandomInt)
          /\ dockerfile' = PathJoin(tmpDir, "deploy")
          /\ deferred' = TRUE
          /\ trace' = Append(trace, Call("tmpl.Execute", "ok"))
          /\ pc' = "change"
          /\ UNCHANGED result
       \/ /\ trace' = Append(trace, Call("tmpl.Execute", "err"))
          /\ Return(ErrOf("tmpl.Execute"))
          /\ UNCHANGED <<fs, rendered, nonces, dockerfile, deferred>>
    /\ UNCHANGED <<runs, opts, callerImage, destroyImage, sc, wd, cwd, dfCwd,
                   tmpDir, dockerfileSyntax, deployFlags, buildOptions, buildErr,
                   stage, logBuffer>>

\* ChangeCwd without the early return on failure
ChangeCwd_IgnoreError ==
    /\ pc = "change"
    /\ \/ /\ wd' = cwd
          /\ trace' = Append(trace, Call("workingDirectoryCtrl.Change", "ok"))
       \/ /\ trace' = Append(trace, Call("workingDirectoryCtrl.Change", "err"))
          /\ UNCHANGED wd
    /\ pc' = "build"
    /\ UNCHANGED <<runs, opts, callerImage, destroyImage, sc, cwd, dfCwd, tmpDir,
                   fs, dockerfileSyntax, deployFlags, rendered, dockerfile,
                   deferred, buildOptions, buildErr, stage, logBuffer, nonces,
                   result>>

\* lines 158-161
ChangeCwd ==
    /\ pc = "change"
    /\ \/ /\ wd' = cwd
          /\ trace' = Append(trace, Call("workingDirectoryCtrl.Change", "ok"))
          /\ pc' = "build"
          /\ UNCHANGED result
       \/ /\ trace' = Append(trace, Call("workingDirectoryCtrl.Change", "err"))
          /\ Return(ErrOf("workingDirectoryCtrl.Change"))
          /\ UNCHANGED wd
    /\ UNCHANGED <<runs, opts, callerImage, destroyImage, sc, cwd, dfCwd, tmpDir,
                   fs, dockerfileSyntax, deployFlags, rendered, dockerfile,
                   deferred, buildOptions, buildErr, stage, logBuffer,
                   nonces>>

\* lines 163-196
Build ==
    /\ pc = "build"
    /\ \E e \in BuildResults :
         LET o == BuildOutcome(e)
         IN  /\ buildOptions' = BuildRequest(dockerfile, cwd)
             /\ buildErr' = e
             /\ stage' = StageAfter(stage, o.log)
             /\ logBuffer' = BufferAfter(logBuffer, o.log)
             /\ trace' = Append(trace, Call("builder.Build",
                                            IF e = Nil THEN "ok" ELSE "err"))
                         \o o.log
             /\ Return(o.ret)
    /\ UNCHANGED <<runs, opts, callerImage, destroyImage, sc, wd, cwd, dfCwd,
                   tmpDir, fs, dockerfileSyntax, deployFlags, rendered, dockerfile,
                   deferred, nonces>>

\* lines 148-152: the deferred removal; its failure is only logged
RunDeferred ==
    /\ pc = "deferred"
    /\ \/ /\ fs' = RemoveFile(fs, dockerfile)
          /\ trace' = Append(trace, Call("fs.Remove", "ok"))
       \/ /\ fs' = fs
          /\ trace' = Append(trace, Call("fs.Remove", "err"))
    /\ pc' = "returned"
    /\ UNCHANGED <<runs, opts, callerImage, destroyImage, sc, wd, cwd, dfCwd,
                   tmpDir, dockerfileSyntax, deployFlags, rendered, dockerfile,
                   deferred, buildOptions, buildErr, stage, logBuffer,
                   nonces, result>>

Next ==
    \/ Start
    \/ FetchClusterMetadata
    \/ GetCwd
    \/ CreateTmpDir
    \/ DockerfileGetCwd
    \/ DockerfileRandom
    \/ DockerfileCreate
    \/ DockerfileIgnore
    \/ DockerfileExecute
    \/ ChangeCwd
    \/ Build
    \/ RunDeferred

Spec == Init /\ [][Next]_vars

---------------------------------------------------------------------------
(* getDestroyFlags on its own: every combination of options, one call *)

InitFlags ==
    /\ pc = "flags"
    /\ runs = 0
    /\ opts \in OptionsAll
    /\ callerImage = ""
    /\ destroyImage = ""
    /\ sc = NoMetadata
    /\ wd = "/w1"
    /\ cwd = ""
    /\ dfCwd = ""
    /\ tmpDir = ""
    /\ fs = NoFiles
    /\ dockerfileSyntax = NoRender
    /\ deployFlags = <<>>
    /\ rendered = NoRender
    /\ dockerfile = ""
    /\ deferred = FALSE
    /\ buildOptions = NoBuildOptions
    /\ buildErr = Nil
    /\ stage = ""
    /\ logBuffer = <<>>
    /\ nonces = <<>>
    /\ trace = <<>>
    /\ result = Nil

CallGetDestroyFlags ==
    /\ pc = "flags"
    /\ deployFlags' = getDestroyFlags(opts)
    /\ pc' = "flags_done"
    /\ UNCHANGED <<runs, opts, callerImage, destroyImage, sc, wd, cwd, dfCwd,
                   tmpDir, fs, dockerfileSyntax, rendered, dockerfile, deferred,
                   buildOptions, buildErr, stage, logBuffer, nonces, trace, result>>

NextFlags == CallGetDestroyFlags

SpecFlags == InitFlags /\ [][NextFlags]_vars

---------------------------------------------------------------------------
(* Properties *)

\* the current invocation has returned to its caller
Returned == pc = "returned" /\ runs > 0

\* Build was invoked by the current invocation and returned
Built == Called("builder.Build")

HasKind(err, kind) == \E i \in 1..Len(err) : err[i].kind = kind

\* the first node of the given kind is at index i
FirstOfKind(err, kind, i) ==
    /\ i \in 1..Len(err)
    /\ err[i].kind = kind
    /\ \A j \in 1..(i - 1) : err[j].kind # kind

UserNodes(err) == Cardinality({i \in 1..Len(err) : err[i].kind = "user"})

Sentinels == Cardinality({i \in 1..Len(trace) : trace[i] = Call("oktetoLog.AddToBuffer", "EOF")})

StageSetTo(s) == CalledWith("oktetoLog.SetStage", s)

\* C1: when Build fails with an error whose chain carries a command error
\* with stage label S, the stage is set to S (and to nothing else) and
\* destroy returns a user-facing error wrapping the command error's cause,
\* whether or not the chain also holds a user-facing error.
C1_CommandErrorStage ==
    (Built /\ HasKind(buildErr, "cmd")) =>
        \E i \in 1..Len(buildErr) :
            /\ FirstOfKind(buildErr, "cmd", i)
            /\ stage = buildErr[i].stage
            /\ \A s \in {"remote deploy", "done"} \ {buildErr[i].stage} : ~StageSetTo(s)
            /\ result # Nil
            /\ result[1].kind = "user"
            /\ SubSeq(result, 3, Len(result)) = buildErr[i].cause
            /\ result[2] = WrapNode("error during development environment deployment")

C1_Witness ==
    /\ Returned
    /\ buildErr = <<UserNode, CmdNode("installer", Cause)>>
    /\ stage = "installer"
    /\ result = <<UserNode, WrapNode("error during development environment deployment")>>
                \o Cause

\* C2 as stated: when Build fails with an error carrying no command error,
\* the stage is "remote deploy"; an error that is user-facing is returned
\* as that same error, any other is wrapped once in a new user-facing error.
C2_Original ==
    (Built /\ buildErr # Nil /\ ~HasKind(buildErr, "cmd")) =>
        /\ stage = "remote deploy"
        /\ HasKind(buildErr, "user") => result = buildErr
        /\ ~HasKind(buildErr, "user") =>
               result = <<UserNode,
                          WrapNode("error during destroy of the development environment")>>
                        \o buildErr

\* C2 amended: when Build fails with an error carrying no command error,
\* the stage is "remote deploy"; if the chain holds a user-facing error the
\* first one is returned as it is, without the wrappers around it and with
\* no new wrapping (it is the builder's error itself when that one is the
\* user-facing error); otherwise the builder's error is wrapped once.
C2_PassThroughOrWrapOnce ==
    (Built /\ buildErr # Nil /\ ~HasKind(buildErr, "cmd")) =>
        /\ stage = "remote deploy"
        /\ HasKind(buildErr, "user") =>
               \E i \in 1..Len(buildErr) :
                   /\ FirstOfKind(buildErr, "user", i)
                   /\ result = SubSeq(buildErr, i, Len(buildErr))
                   /\ UserNodes(result) = UserNodes(buildErr)
        /\ buildErr[1].kind = "user" => result = buildErr
        /\ ~HasKind(buildErr, "user") =>
               /\ result = <<UserNode,
                             WrapNode("error during destroy of the development environment")>>
                           \o buildErr
               /\ UserNodes(result) = 1

C2_Witness ==
    /\ Returned
    /\ buildErr = <<WrapNode("build"), UserNode, PlainNode("bad manifest")>>
    /\ result = <<UserNode, PlainNode("bad manifest")>>
    /\ stage = "remote deploy"

\* C3 as stated: a run returns nil exactly when Build returned nil; then
\* the stage is "done" and one "EOF" was emitted; a run returning an error
\* never sets the stage to "done" and emits no sentinel.
C3_Original ==
    Returned =>
        /\ (result = Nil) <=> (Built /\ buildErr = Nil)
        /\ result = Nil => (stage = "done" /\ Sentinels = 1)
        /\ result # Nil => (~StageSetTo("done") /\ Sentinels = 0)

\* C3 amended: as C3, except that a run returning an error sets the stage
\* to "done" exactly when the command error of the failed Build carries
\* the stage label "done".
C3_SuccessOnlyWhenBuilt ==
    Returned =>
        /\ (result = Nil) <=> (Built /\ buildErr = Nil)
        /\ result = Nil =>
               /\ stage = "done"
               /\ Sentinels = 1
               /\ logBuffer # <<>>
               /\ logBuffer[Len(logBuffer)] = "EOF"
        /\ result # Nil =>
               /\ Sentinels = 0
               /\ StageSetTo("done") <=>
                      \E i \in 1..Len(buildErr) :
                          /\ FirstOfKind(buildErr, "cmd", i)
                          /\ buildErr[i].stage = "done"

C3_Witness ==
    /\ Returned
    /\ Built
    /\ result = Nil
    /\ stage = "done"
    /\ Sentinels = 1

\* C4 as stated: whenever the manifest file was created, its removal has
\* been attempted by the time destroy returns.
C4_Original ==
    (Returned /\ CalledWith("fs.Create", "ok")) => Called("fs.Remove")

\* position of the first call of the given name in the trace, 0 if none
PositionOf(c) ==
    IF Called(c) THEN CHOOSE i \in 1..Len(trace) :
                          trace[i].call = c /\ \A j \in 1..(i - 1) : trace[j].call # c
    ELSE 0

\* C5: when the builder is invoked, the working directory was set back to
\* the captured directory after staging and right before Build, and the
\* request's context path is the captured directory; when the restore
\* fails, destroy returns that error and the builder is not invoked.
C5_RestoreBeforeBuild ==
    /\ Built =>
           /\ trace[PositionOf("builder.Build") - 1] = Call("workingDirectoryCtrl.Change", "ok")
           /\ trace[PositionOf("builder.Build") - 2] = Call("tmpl.Execute", "ok")
           /\ Count("workingDirectoryCtrl.Change") = 1
           /\ wd = cwd
           /\ trace[2] = Call("workingDirectoryCtrl.Get", "ok")
           /\ buildOptions.ok
           /\ buildOptions.Path = cwd
           /\ buildOptions.File = PathJoin(tmpDir, "deploy")
    /\ CalledWith("workingDirectoryCtrl.Change", "err") =>
           /\ ~Built
           /\ pc \in {"deferred", "returned"}
           /\ result = ErrOf("workingDirectoryCtrl.Change")

C5_Witness ==
    /\ Built
    /\ cwd = "/w2"
    /\ wd = "/w2"
    /\ buildOptions.Path = "/w2"

\* the calls destroy makes before Build
EarlySteps ==
    {"clusterMetadata", "workingDirectoryCtrl.Get", "temporalCtrl.Create",
     "createDockerfile.Get", "rand.Int", "fs.Create", "fs.Stat",
     "afero.ReadFile", "afero.WriteFile", "tmpl.Execute",
     "workingDirectoryCtrl.Change"}

EarlyFailure(i) ==
    /\ i \in 1..Len(trace)
    /\ trace[i].call \in EarlySteps
    /\ trace[i].out = "err"

\* C6: the metadata fetch and Build are invoked at most once per
\* invocation; a run whose earlier steps all succeeded invokes Build
\* exactly once; a run in which an earlier step failed invokes no step of
\* the sequence after it (only the deferred removal) and no Build, and
\* returns that step's error.
C6_NoRetries ==
    /\ Count("clusterMetadata") <= 1
    /\ Count("builder.Build") <= 1
    /\ pc # "clusterMetadata" /\ runs > 0 => Count("clusterMetadata") = 1
    /\ Returned =>
           /\ (\A i \in 1..Len(trace) : ~EarlyFailure(i)) => Count("builder.Build") = 1
           /\ \A i \in 1..Len(trace) :
                  EarlyFailure(i) =>
                      /\ Count("builder.Build") = 0
                      /\ result = ErrOf(trace[i].call)
                      /\ \A j \in (i + 1)..Len(trace) : trace[j].call = "fs.Remove"

C6_Witness ==
    /\ Returned
    /\ CalledWith("temporalCtrl.Create", "err")
    /\ ~Built
    /\ result = ErrOf("temporalCtrl.Create")

\* the five flags in their fixed order, each with the condition under
\* which its option field asks for it
FlagTable(o) ==
    << [on |-> o.Name # "",             flag |-> "--name \"" \o o.Name \o "\""],
       [on |-> o.Namespace # "",        flag |-> "--namespace " \o o.Namespace],
       [on |-> o.ManifestPathFlag # "", flag |-> "--file " \o o.ManifestPathFlag],
       [on |-> o.DestroyVolumes,        flag |-> "--volumes"],
       [on |-> o.ForceDestroy,          flag |-> "--force-destroy"] >>

\* C7: getDestroyFlags returns the flags of the table whose field is set,
\* each once, in the table's order; {Name: myenv, Namespace: ns1,
\* DestroyVolumes: true} gives [--name "myenv", --namespace ns1, --volumes].
C7_FlagsInOrder ==
    pc = "flags_done" =>
        /\ \A k \in 1..5 :
               FlagTable(opts)[k].on <=>
                   \E i \in 1..Len(deployFlags) : deployFlags[i] = FlagTable(opts)[k].flag
        /\ \A i \in 1..Len(deployFlags) :
               \E k \in 1..5 :
                   /\ deployFlags[i] = FlagTable(opts)[k].flag
                   /\ \A j \in 1..(i - 1) :
                          \E m \in 1..(k - 1) : deployFlags[j] = FlagTable(opts)[m].flag
        /\ (opts = [Name |-> "myenv", Namespace |-> "ns1", ManifestPathFlag |-> "",
                    DestroyVolumes |-> TRUE, ForceDestroy |-> FALSE])
               => deployFlags = <<"--name \"myenv\"", "--namespace ns1", "--volumes">>

C7_Witness ==
    /\ pc = "flags_done"
    /\ opts = [Name |-> "myenv", Namespace |-> "ns1", ManifestPathFlag |-> "",
               DestroyVolumes |-> TRUE, ForceDestroy |-> FALSE]
    /\ Len(deployFlags) = 3

IgnoreSource == PathJoin(wd, ".oktetodeployignore")

IgnoreTarget == PathJoin(tmpDir, ".dockerignore")

IgnoreErrors == {ErrOf("fs.Stat"), ErrOf("afero.ReadFile"), ErrOf("afero.WriteFile")}

\* C8: once staging has looked for .oktetodeployignore in the working
\* directory: if the file exists and no filesystem call failed, the
\* ephemeral directory holds .dockerignore with the same content; if it
\* does not exist, staging goes on and no .dockerignore is created; a stat
\* failure other than not-exist, a read failure or a write failure ends
\* the run with that error.
C8_IgnoreFilePropagation ==
    Called("fs.Stat") =>
        /\ \A c \in {"fs.Stat", "afero.ReadFile", "afero.WriteFile"} :
               CalledWith(c, "err") => (Returned /\ result = ErrOf(c))
        /\ (IgnoreSource \in DOMAIN fs
            /\ \A c \in {"fs.Stat", "afero.ReadFile", "afero.WriteFile"} :
                   ~CalledWith(c, "err")) =>
               /\ IgnoreTarget \in DOMAIN fs
               /\ fs[IgnoreTarget] = fs[IgnoreSource]
               /\ result \notin IgnoreErrors
               /\ pc # "df_ignore"
        /\ (IgnoreSource \notin DOMAIN fs /\ ~CalledWith("fs.Stat", "err")) =>
               /\ IgnoreTarget \notin DOMAIN fs
               /\ CalledWith("fs.Stat", "notexist")
               /\ result \notin IgnoreErrors
               /\ pc # "df_ignore"

C8_Witness ==
    /\ CalledWith("afero.WriteFile", "ok")
    /\ IgnoreSource = "/w1/.oktetodeployignore"
    /\ IgnoreTarget \in DOMAIN fs
    /\ fs[IgnoreTarget] = "node_modules\n"

\* C9 as stated: every nonce written into a manifest is in [0, 1000) and
\* no two renderings carry the same nonce.
C9_Original ==
    /\ \A i \in 1..Len(nonces) : nonces[i] >= 0 /\ nonces[i] < 1000
    /\ \A i, j \in 1..Len(nonces) : i # j => nonces[i] # nonces[j]

\* C10 as stated: the image of the manifest's final stage is the caller's
\* image when that is not empty, else the runner image of the metadata
\* fetched by the same run; a caller's image is never replaced.
C10_Original ==
    /\ rendered.ok =>
           rendered.UserDestroyImage =
               IF callerImage # "" THEN callerImage ELSE sc.PipelineRunnerImage
    /\ callerImage # "" => destroyImage = callerImage

====
